---- MODULE Spec2Model ----
(***************************************************************************)
(* create-next-elysia: the interactive scaffolder of src/index.ts.         *)
(*                                                                         *)
(* The source holds two copies of the script.  variant = 1 is the copy of  *)
(* lines 1-365 (clone, installs, summary, repository rewrite); variant = 2 *)
(* is the copy of lines 367-570 (clone, installs, summary).                *)
(*                                                                         *)
(* main() is one async function.  It is cut into steps at its awaits (a    *)
(* prompt answered, a subprocess exited) and at the calls into the file    *)
(* system; pc names the next step.  Answers that the code lowercases are   *)
(* sequences of one-character strings, so that toLowerCase is computed.    *)
(* out holds the console lines written by the latest step, lastResult the  *)
(* outcome of the latest external operation (the exit code awaited or the  *)
(* error thrown).  spawned is the list of spawn() calls made so far.       *)
(***************************************************************************)
EXTENDS Integers, Sequences, FiniteSets, TLC

VARIABLES variant, pc, idx, argv2, projectName, pmChoice, packageManager,
          installNow, shouldInstall, projectPath, fs, created, gitmodules,
          setupNewRepos, rootRepo, backendRepo, frontendRepo,
          running, spawned, lastResult, out, exitStatus

vars == <<variant, pc, idx, argv2, projectName, pmChoice, packageManager,
          installNow, shouldInstall, projectPath, fs, created, gitmodules,
          setupNewRepos, rootRepo, backendRepo, frontendRepo,
          running, spawned, lastResult, out, exitStatus>>

(* ---------------------------------------------------------------- bounds *)

\* subprocess exit codes explored: 0 .. MaxExitCode, and 128
MaxExitCode == 2

ExitCodes == (0 .. MaxExitCode) \cup {128}

(* ------------------------------------------------------------ input sets *)

Variants == {1, 2}

\* process.argv[2]; "" stands for an absent (undefined) argument
ArgvChoices == {"", "demo"}

NameAnswers == {"", "demo", "app"}

PmAnswers == {"", "1", "2", "3", "4", " 2"}

InstallAnswers == { <<>>, <<"n", "o">>, <<"N", "O">>, <<"N", "o">>,
                    <<"y", "e", "s">>, <<"n">>, <<"n", "o", " ">> }

SetupAnswers == { <<>>, <<"y", "e", "s">>, <<"Y", "E", "s">>,
                  <<"n", "o">>, <<"y">> }

UrlAnswers == {"", "https://example.com/r.git"}

(* --------------------------------------------------------------- helpers *)

LowerChar(c) ==
  CASE c = "N" -> "n"
    [] c = "O" -> "o"
    [] c = "Y" -> "y"
    [] c = "E" -> "e"
    [] c = "S" -> "s"
    [] OTHER -> c

\* a lowercasing that was left out
BadToLowerCase(s) == s

toLowerCase(s) == [i \in 1 .. Len(s) |-> LowerChar(s[i])]

\* path.resolve(projectName): the absolute path under the working directory
Resolve(name) == "/cwd/" \o name

\* path.join(projectPath, sub)
Join(p, sub) == p \o "/" \o sub

DefaultProjectName == "my-next-elysia-app"

TemplateUrl == "https://github.com/XAN44/next-elysia.git"

CloneCmd == <<"git", "clone", "--recurse-submodules", TemplateUrl>>

NoResult == [step |-> "none", kind |-> "none", code |-> 0]

Exited(step, code) == [step |-> step, kind |-> "exit", code |-> code]

Threw(step) == [step |-> step, kind |-> "threw", code |-> 0]

Returned(step) == [step |-> step, kind |-> "returned", code |-> 0]

\* the entries that may exist before the run starts
ExistingChoices == { {}, {Resolve("demo")} }

(* ------------------------------------------------------------------ Init *)

Init ==
  /\ variant \in Variants
  /\ argv2 \in ArgvChoices
  /\ fs \in ExistingChoices
  /\ pc = "projectName"
  /\ idx = 0
  /\ projectName = ""
  /\ pmChoice = ""
  /\ packageManager = ""
  /\ installNow = <<>>
  /\ shouldInstall = FALSE
  /\ projectPath = ""
  /\ created = {}
  /\ gitmodules = <<>>
  /\ setupNewRepos = <<>>
  /\ rootRepo = ""
  /\ backendRepo = ""
  /\ frontendRepo = ""
  /\ running = {}
  /\ spawned = <<>>
  /\ lastResult = NoResult
  /\ out = <<>>
  /\ exitStatus = {}

(* ----------------------------------------------------------- the prompts *)

\* lines 22-32
ResolveProjectName ==
  /\ pc = "projectName"
  /\ \/ /\ argv2 # ""
        /\ projectName' = argv2
        /\ out' = <<"welcome">>
     \/ /\ argv2 = ""
        /\ \E a \in NameAnswers :
             projectName' = IF a = "" THEN DefaultProjectName ELSE a
        /\ out' = <<"welcome", "q:projectName">>
  /\ pc' = "packageManager"
  /\ UNCHANGED <<variant, idx, argv2, pmChoice, packageManager, installNow,
                 shouldInstall, projectPath, fs, created, gitmodules,
                 setupNewRepos, rootRepo, backendRepo, frontendRepo,
                 running, spawned, lastResult, exitStatus>>

\* the two alternates swapped
BadSelectPackageManager(choice) ==
  IF choice = "2" THEN "yarn"
  ELSE IF choice = "3" THEN "npm"
  ELSE "bun"

\* lines 41-47
SelectPackageManager(choice) ==
  IF choice = "2" THEN "npm"
  ELSE IF choice = "3" THEN "yarn"
  ELSE "bun"

\* lines 34-47
ResolvePackageManager ==
  /\ pc = "packageManager"
  /\ \E a \in PmAnswers :
       /\ pmChoice' = a
       /\ packageManager' = SelectPackageManager(a)
  /\ out' = <<"pmMenu", "q:packageManager">>
  /\ pc' = "installNow"
  /\ UNCHANGED <<variant, idx, argv2, projectName, installNow,
                 shouldInstall, projectPath, fs, created, gitmodules,
                 setupNewRepos, rootRepo, backendRepo, frontendRepo,
                 running, spawned, lastResult, exitStatus>>

\* line 53
ShouldInstall(answer) == toLowerCase(answer) # <<"n", "o">>

\* lines 49-55
ResolveInstallNow ==
  /\ pc = "installNow"
  /\ \E a \in InstallAnswers :
       /\ installNow' = a
       /\ shouldInstall' = ShouldInstall(a)
  /\ out' = <<"q:installNow", "settingUp">>
  /\ pc' = "checkDir"
  /\ UNCHANGED <<variant, idx, argv2, projectName, pmChoice, packageManager,
                 projectPath, fs, created, gitmodules,
                 setupNewRepos, rootRepo, backendRepo, frontendRepo,
                 running, spawned, lastResult, exitStatus>>

(* ------------------------------------------- directory check and clone *)

\* process.exit(code)
Exit(code) ==
  /\ exitStatus' = {code}
  /\ pc' = "exited"

\* the existence check reports the collision but goes on
BadCheckDir ==
  /\ pc = "checkDir"
  /\ projectPath' = Resolve(projectName)
  /\ out' = IF Resolve(projectName) \in fs THEN <<"dirExists">> ELSE <<>>
  /\ pc' = "mkdir"
  /\ UNCHANGED <<variant, idx, argv2, projectName, pmChoice, packageManager,
                 installNow, shouldInstall, fs, created, gitmodules,
                 setupNewRepos, rootRepo, backendRepo, frontendRepo,
                 running, spawned, lastResult, exitStatus>>

\* lines 57-63
CheckDir ==
  /\ pc = "checkDir"
  /\ projectPath' = Resolve(projectName)
  /\ IF Resolve(projectName) \in fs
       THEN /\ out' = <<"dirExists">>
            /\ Exit(1)
       ELSE /\ out' = <<>>
            /\ pc' = "mkdir"
            /\ UNCHANGED exitStatus
  /\ UNCHANGED <<variant, idx, argv2, projectName, pmChoice, packageManager,
                 installNow, shouldInstall, fs, created, gitmodules,
                 setupNewRepos, rootRepo, backendRepo, frontendRepo,
                 running, spawned, lastResult>>

\* line 65: fs.mkdirSync({recursive: true}) creates what is missing, or throws
\* (no permission, a path segment that is a file); nothing in main catches it
MkDir ==
  /\ pc = "mkdir"
  /\ \/ /\ fs' = fs \cup {projectPath}
        /\ created' = created \cup ({projectPath} \ fs)
        /\ lastResult' = Returned("mkdir")
        /\ pc' = "clone"
     \/ /\ lastResult' = Threw("mkdir")
        /\ pc' = "rejected"
        /\ UNCHANGED <<fs, created>>
  /\ out' = <<>>
  /\ UNCHANGED <<variant, idx, argv2, projectName, pmChoice, packageManager,
                 installNow, shouldInstall, projectPath, gitmodules,
                 setupNewRepos, rootRepo, backendRepo, frontendRepo,
                 running, spawned, exitStatus>>

\* a handler that prints the error and lets the process end normally
BadTopLevelCatch ==
  /\ pc = "rejected"
  /\ out' = <<"topLevelError">>
  /\ Exit(0)
  /\ UNCHANGED <<variant, idx, argv2, projectName, pmChoice, packageManager,
                 installNow, shouldInstall, projectPath, fs, created, gitmodules,
                 setupNewRepos, rootRepo, backendRepo, frontendRepo,
                 running, spawned, lastResult>>

\* lines 362-365: main().catch
TopLevelCatch ==
  /\ pc = "rejected"
  /\ out' = <<"topLevelError">>
  /\ Exit(1)
  /\ UNCHANGED <<variant, idx, argv2, projectName, pmChoice, packageManager,
                 installNow, shouldInstall, projectPath, fs, created, gitmodules,
                 setupNewRepos, rootRepo, backendRepo, frontendRepo,
                 running, spawned, lastResult>>

CloneStdio ==
  IF variant = 1 THEN <<"pipe", "inherit", "inherit">>
  ELSE <<"pipe", "pipe", "pipe">>

\* lines 85-92 and 451-453: what the catch of the clone step prints
CloneFailureReport ==
  IF variant = 1 THEN <<"cloneFailed", "errorDetails", "checklist">>
  ELSE <<"cloneFailed">>

\* lines 68-79, and the catch when spawn itself throws
SpawnClone ==
  /\ pc = "clone"
  /\ spawned' = Append(spawned, [cmd |-> Append(CloneCmd, projectPath),
                                 cwd |-> "", stdio |-> CloneStdio])
  /\ \/ /\ running' = running \cup {"clone"}
        /\ out' = <<"cloning">>
        /\ pc' = "cloneWait"
        /\ UNCHANGED <<lastResult, exitStatus>>
     \/ /\ lastResult' = Threw("clone")
        /\ out' = <<"cloning">> \o CloneFailureReport
        /\ Exit(1)
        /\ UNCHANGED running
  /\ UNCHANGED <<variant, idx, argv2, projectName, pmChoice, packageManager,
                 installNow, shouldInstall, projectPath, fs, created, gitmodules,
                 setupNewRepos, rootRepo, backendRepo, frontendRepo>>

\* lines 81-97: await cloneProcess.exited
CloneExited ==
  /\ pc = "cloneWait"
  /\ "clone" \in running
  /\ running' = running \ {"clone"}
  /\ \E code \in ExitCodes :
       /\ lastResult' = Exited("clone", code)
       /\ IF code # 0
            THEN /\ out' = CloneFailureReport
                 /\ Exit(1)
                 /\ UNCHANGED idx
            ELSE /\ out' = <<"cloned">>
                 /\ pc' = IF shouldInstall THEN "install" ELSE "summary"
                 /\ idx' = IF shouldInstall THEN 1 ELSE idx
                 /\ UNCHANGED exitStatus
  /\ UNCHANGED <<variant, argv2, projectName, pmChoice, packageManager,
                 installNow, shouldInstall, projectPath, fs, created, gitmodules,
                 setupNewRepos, rootRepo, backendRepo, frontendRepo, spawned>>

(* -------------------------------------------------------------- installs *)

\* line 101
InstallCmd(pm) == IF pm = "npm" THEN "npm" ELSE pm

InstallStdio ==
  IF variant = 1 THEN <<"pipe", "inherit", "inherit">>
  ELSE <<"inherit", "inherit", "inherit">>

\* lines 103-174: the three install blocks, in the order of the code
InstallSteps ==
  << [name |-> "root",     cwd |-> projectPath,
      before |-> <<"installingWith", "installingRoot">>,
      ok |-> "rootInstalled", fail |-> "rootInstallFailed",
      threw |-> "couldNotInstallRoot"],
     [name |-> "backend",  cwd |-> Join(projectPath, "back-end/app"),
      before |-> <<"installingBackend">>,
      ok |-> "backendInstalled", fail |-> "backendInstallFailed",
      threw |-> "couldNotInstallBackend"],
     [name |-> "frontend", cwd |-> Join(projectPath, "front-end/my-app"),
      before |-> <<"installingFrontend">>,
      ok |-> "frontendInstalled", fail |-> "frontendInstallFailed",
      threw |-> "couldNotInstallFrontend"] >>

\* where main goes after install block i
AfterInstall(i) == IF i < Len(InstallSteps) THEN "install" ELSE "summary"

\* lines 105-110, 119-122 (and the same for backend and frontend)
InstallSpawn(i) ==
  /\ pc = "install"
  /\ idx = i
  /\ spawned' = Append(spawned,
                   [cmd |-> <<InstallCmd(packageManager), "install">>,
                    cwd |-> InstallSteps[i].cwd, stdio |-> InstallStdio])
  /\ \/ /\ running' = running \cup {InstallSteps[i].name}
        /\ out' = InstallSteps[i].before
        /\ pc' = "installWait"
        /\ UNCHANGED <<idx, lastResult>>
     \/ /\ lastResult' = Threw(InstallSteps[i].name)
        /\ out' = InstallSteps[i].before \o <<InstallSteps[i].threw, "runManually">>
        /\ pc' = AfterInstall(i)
        /\ idx' = i + 1
        /\ UNCHANGED running
  /\ UNCHANGED <<variant, argv2, projectName, pmChoice, packageManager,
                 installNow, shouldInstall, projectPath, fs, created, gitmodules,
                 setupNewRepos, rootRepo, backendRepo, frontendRepo, exitStatus>>

\* an install whose non-zero exit is treated like a failed clone
BadInstallExited(i) ==
  /\ pc = "installWait"
  /\ idx = i
  /\ InstallSteps[i].name \in running
  /\ running' = running \ {InstallSteps[i].name}
  /\ \E code \in ExitCodes :
       /\ lastResult' = Exited(InstallSteps[i].name, code)
       /\ IF code # 0
            THEN /\ out' = <<InstallSteps[i].fail, "runManually">>
                 /\ Exit(1)
                 /\ UNCHANGED idx
            ELSE /\ out' = <<InstallSteps[i].ok>>
                 /\ pc' = AfterInstall(i)
                 /\ idx' = i + 1
                 /\ UNCHANGED exitStatus
  /\ UNCHANGED <<variant, argv2, projectName, pmChoice, packageManager,
                 installNow, shouldInstall, projectPath, fs, created, gitmodules,
                 setupNewRepos, rootRepo, backendRepo, frontendRepo, spawned>>

\* lines 112-118 (and the same for backend and frontend)
InstallExited(i) ==
  /\ pc = "installWait"
  /\ idx = i
  /\ InstallSteps[i].name \in running
  /\ running' = running \ {InstallSteps[i].name}
  /\ \E code \in ExitCodes :
       /\ lastResult' = Exited(InstallSteps[i].name, code)
       /\ out' = IF code # 0 THEN <<InstallSteps[i].fail, "runManually">>
                 ELSE <<InstallSteps[i].ok>>
  /\ pc' = AfterInstall(i)
  /\ idx' = i + 1
  /\ UNCHANGED <<variant, argv2, projectName, pmChoice, packageManager,
                 installNow, shouldInstall, projectPath, fs, created, gitmodules,
                 setupNewRepos, rootRepo, backendRepo, frontendRepo,
                 spawned, exitStatus>>

(* --------------------------------------------------------------- summary *)

\* lines 177-200 and 538-561
PrintSummary ==
  /\ pc = "summary"
  /\ out' = <<"projectCreated", "projectLocation", "nextSteps">>
             \o (IF ~shouldInstall THEN <<"manualInstall">> ELSE <<>>)
             \o <<"startDevServers", "seeReadme">>
  /\ pc' = IF variant = 1 THEN "setupPrompt" ELSE "finish"
  /\ UNCHANGED <<variant, idx, argv2, projectName, pmChoice, packageManager,
                 installNow, shouldInstall, projectPath, fs, created, gitmodules,
                 setupNewRepos, rootRepo, backendRepo, frontendRepo,
                 running, spawned, lastResult, exitStatus>>

(* ---------------------------------------------------- repository rewrite *)

\* a prompt whose default is yes, like the install prompt
BadWantsNewRepos(answer) == toLowerCase(answer) # <<"n", "o">>

\* line 207
WantsNewRepos(answer) == toLowerCase(answer) = <<"y", "e", "s">>

\* lines 202-208
AskSetupNewRepos ==
  /\ pc = "setupPrompt"
  /\ \E a \in SetupAnswers :
       /\ setupNewRepos' = a
       /\ IF WantsNewRepos(a)
            THEN /\ out' = <<"q:setupNewRepos", "settingUpRepos">>
                 /\ pc' = "repoUrls"
            ELSE /\ out' = <<"q:setupNewRepos">>
                 /\ pc' = "finish"
  /\ UNCHANGED <<variant, idx, argv2, projectName, pmChoice, packageManager,
                 installNow, shouldInstall, projectPath, fs, created, gitmodules,
                 rootRepo, backendRepo, frontendRepo,
                 running, spawned, lastResult, exitStatus>>

\* lines 210-218: the three URL prompts, read one after another
AskRepoUrls ==
  /\ pc = "repoUrls"
  /\ \E r \in UrlAnswers, b \in UrlAnswers, f \in UrlAnswers :
       /\ rootRepo' = r
       /\ backendRepo' = b
       /\ frontendRepo' = f
  /\ out' = <<"q:rootRepo", "q:backendRepo", "q:frontendRepo">>
  /\ pc' = "writeGitmodules"
  /\ UNCHANGED <<variant, idx, argv2, projectName, pmChoice, packageManager,
                 installNow, shouldInstall, projectPath, fs, created, gitmodules,
                 setupNewRepos, running, spawned, lastResult, exitStatus>>

\* lines 228-234
GitmodulesContent(backend, frontend) ==
  << "[submodule \"back-end/app\"]",
     "\tpath = back-end/app",
     "\turl = " \o backend,
     "[submodule \"front-end/my-app\"]",
     "\tpath = front-end/my-app",
     "\turl = " \o frontend >>

\* lines 349-354: the one catch around the whole rewrite stage
RewriteCatchReport == <<"rewriteError", "updateManually">>

\* lines 220-237: fs.writeFileSync writes the file or throws
WriteGitmodules ==
  /\ pc = "writeGitmodules"
  /\ \/ /\ gitmodules' = GitmodulesContent(backendRepo, frontendRepo)
        /\ lastResult' = Returned("writeGitmodules")
        /\ out' = <<"updatingGitmodules", "gitmodulesUpdated">>
        /\ pc' = "git"
        /\ idx' = 1
     \/ /\ lastResult' = Threw("writeGitmodules")
        /\ out' = <<"updatingGitmodules">> \o RewriteCatchReport
        /\ pc' = "finish"
        /\ UNCHANGED <<gitmodules, idx>>
  /\ UNCHANGED <<variant, argv2, projectName, pmChoice, packageManager,
                 installNow, shouldInstall, projectPath, fs, created,
                 setupNewRepos, rootRepo, backendRepo, frontendRepo,
                 running, spawned, exitStatus>>

PushCmd == <<"git", "push", "-u", "origin", "main">>

SetUrlCmd(url) == <<"git", "remote", "set-url", "origin", url>>

\* lines 239-246; ok / fail are the lines printed after a zero / non-zero
\* exit (the exit code of this step is not read)
SyncStep ==
  [name |-> "sync", cmd |-> <<"git", "submodule", "sync", "--recursive">>,
   cwd |-> projectPath, before |-> <<"syncing">>,
   ok |-> <<"synced">>, fail |-> <<"synced">>]

\* lines 248-255
SetUrlBackendStep ==
  [name |-> "setUrlBackend", cmd |-> SetUrlCmd(backendRepo),
   cwd |-> Join(projectPath, "back-end/app"),
   before |-> <<"updatingBackendRemote">>,
   ok |-> <<"backendRemoteUpdated">>, fail |-> <<"backendRemoteUpdated">>]

\* lines 257-263
SetUrlFrontendStep ==
  [name |-> "setUrlFrontend", cmd |-> SetUrlCmd(frontendRepo),
   cwd |-> Join(projectPath, "front-end/my-app"),
   before |-> <<"updatingFrontendRemote">>,
   ok |-> <<"frontendRemoteUpdated">>, fail |-> <<"frontendRemoteUpdated">>]

\* lines 265-272
SetUrlRootStep ==
  [name |-> "setUrlRoot", cmd |-> SetUrlCmd(rootRepo),
   cwd |-> projectPath, before |-> <<"updatingRootRemote">>,
   ok |-> <<"rootRemoteUpdated">>, fail |-> <<"rootRemoteUpdated">>]

\* lines 274-280
AddStep ==
  [name |-> "add", cmd |-> <<"git", "add", ".gitmodules">>,
   cwd |-> projectPath, before |-> <<"staging">>,
   ok |-> <<>>, fail |-> <<>>]

\* lines 282-298
CommitStep ==
  [name |-> "commit",
   cmd |-> <<"git", "commit", "-m", "Update submodule URLs to new repositories">>,
   cwd |-> projectPath, before |-> <<"committing">>,
   ok |-> <<"committed">>, fail |-> <<"noChangesOrCommitFailed">>]

\* lines 300-312
PushBackendStep ==
  [name |-> "pushBackend", cmd |-> PushCmd,
   cwd |-> Join(projectPath, "back-end/app"), before |-> <<"pushingBackend">>,
   ok |-> <<"backendPushed">>, fail |-> <<"backendPushIssues">>]

\* lines 314-325
PushFrontendStep ==
  [name |-> "pushFrontend", cmd |-> PushCmd,
   cwd |-> Join(projectPath, "front-end/my-app"), before |-> <<"pushingFrontend">>,
   ok |-> <<"frontendPushed">>, fail |-> <<"frontendPushIssues">>]

\* lines 327-339
PushRootStep ==
  [name |-> "pushRoot", cmd |-> PushCmd,
   cwd |-> projectPath, before |-> <<"pushingRoot">>,
   ok |-> <<"rootPushed">>, fail |-> <<"rootPushIssues">>]

\* a slip that pushes the root repository before its submodules
BadRewriteOps ==
  << SyncStep, SetUrlBackendStep, SetUrlFrontendStep, SetUrlRootStep,
     AddStep, CommitStep, PushRootStep, PushBackendStep, PushFrontendStep >>

\* lines 239-339: the git invocations of the stage, in the order of the code
RewriteOps ==
  << SyncStep, SetUrlBackendStep, SetUrlFrontendStep, SetUrlRootStep,
     AddStep, CommitStep, PushBackendStep, PushFrontendStep, PushRootStep >>

RewriteStdio == <<"pipe", "inherit", "inherit">>

\* a spawn whose exit is not awaited
BadGitSpawn(i) ==
  /\ pc = "git"
  /\ idx = i
  /\ spawned' = Append(spawned, [cmd |-> RewriteOps[i].cmd,
                                 cwd |-> RewriteOps[i].cwd,
                                 stdio |-> RewriteStdio])
  /\ running' = running \cup {RewriteOps[i].name}
  /\ out' = RewriteOps[i].before
  /\ pc' = IF i = Len(RewriteOps) THEN "finish" ELSE "git"
  /\ idx' = i + 1
  /\ UNCHANGED <<variant, argv2, projectName, pmChoice, packageManager,
                 installNow, shouldInstall, projectPath, fs, created, gitmodules,
                 setupNewRepos, rootRepo, backendRepo, frontendRepo,
                 lastResult, exitStatus>>

\* one `await spawn({...}).exited` of lines 241-333, up to the await; a throw
\* of spawn leaves the try block for the catch of lines 349-354
GitSpawn(i) ==
  /\ pc = "git"
  /\ idx = i
  /\ spawned' = Append(spawned, [cmd |-> RewriteOps[i].cmd,
                                 cwd |-> RewriteOps[i].cwd,
                                 stdio |-> RewriteStdio])
  /\ \/ /\ running' = running \cup {RewriteOps[i].name}
        /\ out' = RewriteOps[i].before
        /\ pc' = "gitWait"
        /\ UNCHANGED lastResult
     \/ /\ lastResult' = Threw(RewriteOps[i].name)
        /\ out' = RewriteOps[i].before \o RewriteCatchReport
        /\ pc' = "finish"
        /\ UNCHANGED running
  /\ UNCHANGED <<variant, idx, argv2, projectName, pmChoice, packageManager,
                 installNow, shouldInstall, projectPath, fs, created, gitmodules,
                 setupNewRepos, rootRepo, backendRepo, frontendRepo, exitStatus>>

\* the continuation of the same await: the exit code is read (and, for the
\* sync, set-url and add steps, dropped); lines 341-348 follow the last one
GitExited(i) ==
  /\ pc = "gitWait"
  /\ idx = i
  /\ RewriteOps[i].name \in running
  /\ running' = running \ {RewriteOps[i].name}
  /\ \E code \in ExitCodes :
       /\ lastResult' = Exited(RewriteOps[i].name, code)
       /\ out' = (IF code = 0 THEN RewriteOps[i].ok ELSE RewriteOps[i].fail)
                 \o (IF i = Len(RewriteOps)
                      THEN <<"allUpdated", "repositoryList">> ELSE <<>>)
  /\ pc' = IF i = Len(RewriteOps) THEN "finish" ELSE "git"
  /\ idx' = i + 1
  /\ UNCHANGED <<variant, argv2, projectName, pmChoice, packageManager,
                 installNow, shouldInstall, projectPath, fs, created, gitmodules,
                 setupNewRepos, rootRepo, backendRepo, frontendRepo,
                 spawned, exitStatus>>

\* lines 357-360 and 562-565: main returns and the process ends normally
Finish ==
  /\ pc = "finish"
  /\ out' = <<"happyCoding">>
  /\ exitStatus' = {0}
  /\ pc' = "done"
  /\ UNCHANGED <<variant, idx, argv2, projectName, pmChoice, packageManager,
                 installNow, shouldInstall, projectPath, fs, created, gitmodules,
                 setupNewRepos, rootRepo, backendRepo, frontendRepo,
                 running, spawned, lastResult>>

Next ==
  \/ ResolveProjectName
  \/ ResolvePackageManager
  \/ ResolveInstallNow
  \/ CheckDir
  \/ MkDir
  \/ TopLevelCatch
  \/ SpawnClone
  \/ CloneExited
  \/ \E i \in 1 .. Len(InstallSteps) : InstallSpawn(i)
  \/ \E i \in 1 .. Len(InstallSteps) : InstallExited(i)
  \/ PrintSummary
  \/ AskSetupNewRepos
  \/ AskRepoUrls
  \/ WriteGitmodules
  \/ \E i \in 1 .. Len(RewriteOps) : GitSpawn(i)
  \/ \E i \in 1 .. Len(RewriteOps) : GitExited(i)
  \/ Finish

Spec == Init /\ [][Next]_vars

(* ------------------------------------------------ vocabulary of the claims *)

\* the lines of a step's output, as a set
Range(s) == {s[i] : i \in 1 .. Len(s)}

Terminal == pc \in {"done", "exited"}

\* the resolved path was there before this run touched the file system
ExistedBefore == projectPath # "" /\ projectPath \in fs \ created

IsInstall(r) == Len(r.cmd) = 2 /\ r.cmd[2] = "install"

IsClone(r) == r.cmd = <<"git", "clone", "--recurse-submodules",
                        "https://github.com/XAN44/next-elysia.git",
                        "/cwd/" \o projectName>>

\* a git invocation other than the clone
IsRewriteGit(r) == r.cmd[1] = "git" /\ r.cmd[2] # "clone"

Installs == SelectSeq(spawned, IsInstall)

RewriteGits == SelectSeq(spawned, IsRewriteGit)

IsPrefix(s, t) == Len(s) <= Len(t) /\ \A i \in 1 .. Len(s) : s[i] = t[i]

ExpectedInstallDirs ==
  << projectPath, projectPath \o "/back-end/app", projectPath \o "/front-end/my-app" >>

InstallDirs == [i \in 1 .. Len(Installs) |-> Installs[i].cwd]

IsNo(a) == Len(a) = 2 /\ a[1] \in {"n", "N"} /\ a[2] \in {"o", "O"}

IsYes(a) == Len(a) = 3 /\ a[1] \in {"y", "Y"} /\ a[2] \in {"e", "E"} /\ a[3] \in {"s", "S"}

Failed(r) == r.kind = "threw" \/ (r.kind = "exit" /\ r.code # 0)

InstallPcs == {"install", "installWait"}

RewritePcs == {"repoUrls", "writeGitmodules", "git", "gitWait"}

\* the places of main after the install stage
PostInstallPcs == {"summary", "setupPrompt", "finish", "done"} \cup RewritePcs

InstallNames == {"root", "backend", "frontend"}

RewriteNames == {"sync", "setUrlBackend", "setUrlFrontend", "setUrlRoot", "add",
                 "commit", "pushBackend", "pushFrontend", "pushRoot"}

(* -------------------------------------------------------------------- C1 *)

C2_CloneFailureIsFatal ==
  (lastResult.step = "clone" /\ Failed(lastResult)) =>
     /\ "checklist" \in Range(out)
     /\ pc = "exited"
     /\ exitStatus = {1}
     /\ Len(spawned) = 1
     /\ running = {}

(* -------------------------------------------------------------------- C3 *)

C3_State ==
  /\ pc \in InstallPcs => exitStatus = {} /\ shouldInstall
  /\ IsPrefix(InstallDirs, ExpectedInstallDirs)
  /\ (shouldInstall /\ pc \in PostInstallPcs) => Len(Installs) = 3
  /\ (shouldInstall /\ pc = "done") => exitStatus = {0}
  /\ (lastResult.step \in InstallNames) => exitStatus \subseteq {0}

C3_Step ==
  /\ pc \in InstallPcs => pc' \in InstallPcs \cup {"summary"}
  /\ pc = "summary" => "projectCreated" \in Range(out')

\* C3: with install-now true and the clone done, exactly three installs are
\* attempted, in the order root, back-end/app, front-end/my-app, whatever the
\* earlier installs did (zero exit, non-zero exit, spawn error); no install
\* failure ends the process or changes its exit code, and the summary follows.
C3_ThreeInstallsInOrder == [] C3_State /\ [][C3_Step]_vars

C3_Witness ==
  /\ pc = "installWait"
  /\ idx = 3
  /\ lastResult.step = "backend"
  /\ Failed(lastResult)
  /\ Len(Installs) = 3

(* -------------------------------------------------------------------- C4 *)

\* C4: an install-now answer that lowercases to "no" means that no install is
\* ever spawned and that the summary prints the manual install instructions;
\* any other answer means the install stage runs and they are not printed.
C4_InstallNowDecides ==
  pc \notin {"projectName", "packageManager", "installNow"} =>
    /\ IsNo(installNow) => Installs = <<>>
    /\ "projectCreated" \in Range(out) =>
          ("manualInstall" \in Range(out) <=> IsNo(installNow))
    /\ "manualInstall" \in Range(out) => IsNo(installNow)
    /\ (~IsNo(installNow) /\ pc \in PostInstallPcs) => Len(Installs) = 3
    /\ pc \in InstallPcs => ~IsNo(installNow)

C4_Witness ==
  /\ installNow = <<"N", "O">>
  /\ "manualInstall" \in Range(out)
  /\ Len(spawned) = 1

(* -------------------------------------------------------------------- C5 *)

\* C5: the exit code is 0 on every run that completes normally, also after
\* failed installs or failed rewrite operations; it is 1 exactly when the
\* target existed, the clone failed or an exception escaped main; there is no
\* other exit code.
C5_ExitCodes ==
  /\ exitStatus \in {{}, {0}, {1}}
  /\ pc = "done" <=> exitStatus = {0}
  /\ pc = "exited" <=> exitStatus = {1}
  /\ Terminal =>
       (exitStatus = {1} <=>
          \/ ExistedBefore
          \/ lastResult.step = "clone" /\ Failed(lastResult)
          \/ lastResult = Threw("mkdir"))

C5_Witness ==
  /\ pc = "done"
  /\ exitStatus = {0}
  /\ lastResult.step = "pushRoot"
  /\ Failed(lastResult)

(* -------------------------------------------------------------------- C6 *)

\* C6: when the rewrite prompt is answered with anything but "yes" (in any
\* case), the run spawns no git command besides the clone and does not write
\* .gitmodules.
C6_DeclinedRewriteDoesNothing ==
  /\ ~IsYes(setupNewRepos) =>
       /\ RewriteGits = <<>>
       /\ gitmodules = <<>>
       /\ pc \notin RewritePcs
  /\ (variant = 1 /\ pc \in {"finish", "done"} /\ ~IsYes(setupNewRepos)) =>
       /\ IsClone(spawned[1])
       /\ \A i \in 2 .. Len(spawned) : spawned[i].cmd[1] # "git"

C6_Witness ==
  /\ variant = 1
  /\ pc = "done"
  /\ setupNewRepos = <<"y">>
  /\ Len(spawned) = 4

(* -------------------------------------------------------------------- C7 *)

\* C7: the package manager is a function of the menu input: "2" is npm, "3"
\* is yarn, anything else is bun; and that executable, with the argument
\* install, is what each of the install subprocesses runs.
C7_PackageManagerSelection ==
  pc \notin {"projectName", "packageManager"} =>
    /\ pmChoice = "2" => packageManager = "npm"
    /\ pmChoice = "3" => packageManager = "yarn"
    /\ pmChoice \notin {"2", "3"} => packageManager = "bun"
    /\ \A i \in 1 .. Len(spawned) :
         (i > 1 /\ i <= 4 /\ shouldInstall) =>
            spawned[i].cmd = << (CASE pmChoice = "2" -> "npm"
                                   [] pmChoice = "3" -> "yarn"
                                   [] OTHER -> "bun"), "install" >>

C7_Witness ==
  /\ pmChoice = "3"
  /\ pc = "done"
  /\ Len(Installs) = 3
  /\ Installs[3].cmd = <<"yarn", "install">>

(* -------------------------------------------------------------------- C8 *)

\* the lines of the rewrite stage that report a problem
WarningLines == {"noChangesOrCommitFailed", "backendPushIssues",
                 "frontendPushIssues", "rootPushIssues", "rewriteError"}

\* C8: in the rewrite stage a failure of any git operation (non-zero exit or
\* spawn error) is logged as a warning, every later operation of the stage is
\* still attempted, and the process is not terminated.
C8_RewriteIsBestEffort ==
  (lastResult.step \in RewriteNames /\ Failed(lastResult)) =>
     /\ pc \in {"git", "finish"} => Range(out) \cap WarningLines # {}
     /\ pc \in {"finish", "done"} => Len(RewriteGits) = 9
     /\ exitStatus # {1}

(* -------------------------------------------------------------------- C9 *)

Where(cwd) ==
  IF cwd = projectPath THEN "root"
  ELSE IF cwd = projectPath \o "/back-end/app" THEN "backend"
  ELSE IF cwd = projectPath \o "/front-end/my-app" THEN "frontend"
  ELSE "elsewhere"

NotSync(r) == r.cmd[2] # "submodule"

\* the remote, add, commit and push invocations so far: <<subcommand, where>>
RewriteTrace ==
  [i \in 1 .. Len(SelectSeq(RewriteGits, NotSync)) |->
     << SelectSeq(RewriteGits, NotSync)[i].cmd[2],
        Where(SelectSeq(RewriteGits, NotSync)[i].cwd) >>]

\* C9 (as stated): the remotes are rewritten for root, backend, frontend in
\* that order, then add and commit in the root, then the pushes of backend,
\* frontend and root.
C9_Original ==
  IsPrefix(RewriteTrace,
           << <<"remote", "root">>, <<"remote", "backend">>, <<"remote", "frontend">>,
              <<"add", "root">>, <<"commit", "root">>,
              <<"push", "backend">>, <<"push", "frontend">>, <<"push", "root">> >>)

\* C9 (amended): the remotes are rewritten for backend, frontend and root in
\* that order, then add and commit in the root, then the pushes of backend,
\* frontend and root to main; no push precedes the commit, the root push is
\* last, and a stage that no error cut short has issued all of them.
C9_RewriteOrder ==
  /\ IsPrefix(RewriteTrace,
           << <<"remote", "backend">>, <<"remote", "frontend">>, <<"remote", "root">>,
              <<"add", "root">>, <<"commit", "root">>,
              <<"push", "backend">>, <<"push", "frontend">>, <<"push", "root">> >>)
  /\ \A i \in 1 .. Len(RewriteGits) :
       RewriteGits[i].cmd[2] = "push" =>
          RewriteGits[i].cmd = <<"git", "push", "-u", "origin", "main">>
  /\ (variant = 1 /\ pc \in {"finish", "done"} /\ IsYes(setupNewRepos)
        /\ lastResult.kind # "threw") => Len(RewriteTrace) = 8

C9_Witness ==
  /\ pc = "done"
  /\ Len(RewriteTrace) = 8
  /\ RewriteTrace[1] = <<"remote", "backend">>
  /\ RewriteTrace[8] = <<"push", "root">>

(* ------------------------------------------------------------------- C10 *)

\* the position of main in the order of the source
Rank ==
  CASE pc = "projectName"     -> 1
    [] pc = "packageManager"  -> 2
    [] pc = "installNow"      -> 3
    [] pc = "checkDir"        -> 4
    [] pc = "mkdir"           -> 5
    [] pc = "clone"           -> 6
    [] pc = "cloneWait"       -> 7
    [] pc = "install"         -> 6 + 2 * idx
    [] pc = "installWait"     -> 7 + 2 * idx
    [] pc = "summary"         -> 14
    [] pc = "setupPrompt"     -> 15
    [] pc = "repoUrls"        -> 16
    [] pc = "writeGitmodules" -> 17
    [] pc = "git"             -> 16 + 2 * idx
    [] pc = "gitWait"         -> 17 + 2 * idx
    [] pc = "finish"          -> 36
    [] pc = "done"            -> 37
    [] pc = "rejected"        -> 38
    [] pc = "exited"          -> 39

C10_State ==
  /\ Cardinality(running) <= 1
  /\ pc \notin {"cloneWait", "installWait", "gitWait"} => running = {}

C10_Step == Rank' > Rank

\* C10: at most one subprocess runs at any time: a subprocess has exited
\* before the next one is spawned or the next prompt is issued, and main never
\* goes back to an earlier stage.
C10_StrictlySequential == [] C10_State /\ [][C10_Step]_vars

C10_Witness ==
  /\ pc = "gitWait"
  /\ idx = 9
  /\ running = {"pushRoot"}
  /\ Len(spawned) = 13

====
